---- MODULE Spec2Model ----
(***************************************************************************)
(* PharmaSee medicine scanner: the catalog loader and matcher               *)
(* (MedicineDatabase), the startup, the detection policy and the scan loop *)
(* (MedicineScanner), with the text extractor (OCRReader) and the          *)
(* classifier (MedicineLLMAnalyzer) as the external calls they make.       *)
(*                                                                         *)
(* A Python str is a sequence of one-character strings; None is a value    *)
(* outside the strings; a confidence is an integer number of hundredths    *)
(* (0.7 is 70); a time is an integer number of clock ticks.                *)
(***************************************************************************)
EXTENDS Integers, Sequences, FiniteSets, TLC

VARIABLES
    \* MedicineDatabase
    medicines,               \* self.medicines: the catalog, in insertion order
    \* what MedicineScanner.__init__ finds when the program starts
    database_source,         \* the catalog file at the configured path
    api_key,                 \* the OpenAI API key of the configuration ("" if unset)
    camera_opened,           \* whether the camera can be opened
    \* MedicineScanner
    scan_interval,           \* self.scan_interval
    last_scan_time,          \* self.last_scan_time
    last_detected_medicine,  \* self.last_detected_medicine
    last_analysis,           \* self.last_analysis
    now,                     \* the clock time.time() reads
    pc,                      \* where the program is: before the scanner is
                             \* constructed ("startup"), ended by an exception of
                             \* the constructor ("halted"), at the top of run's
                             \* loop ("loop"), inside _perform_scan before the
                             \* detection returns ("ocr") or after it
                             \* ("detected"), or past the loop ("stopped")
    medicine_name,           \* _perform_scan's medicine_name, kept until the next scan
    n_results,               \* len(text_results) of the scan's detection
    \* what the loop and the scan have done (history, read by no action)
    event,                   \* the last thing that happened in the loop
    attempted, attempt_start,\* whether _perform_scan ever began, and the clock
                             \* reading when it last did
    pre_medicine, pre_analysis, \* the cached pair when the scan in progress began
    ocr_calls, db_calls, llm_calls, \* calls of readtext, search_medicine and
                             \* chat.completions.create in the current or last scan
    ocr_outcome, llm_outcome,\* how those calls ended
    scan_failed,             \* whether some scan has ended in an extraction
                             \* failure, without a name, or in a classification
                             \* failure
    replaced_cached,         \* whether the current or last scan stored its result
                             \* over a cached one
    \* a component called directly: the call in progress and what it returned
    db_op, db_query, db_threshold, db_top_n, db_result, db_matches,
    ocr_engine,              \* what reader.readtext did on the frame
    frame_results, frame_name, frame_calls,
    analyzed_name,           \* analyze_medicine's medicine_name
    create_outcome,          \* what chat.completions.create did
    parsed_text,             \* _parse_llm_response's response_text
    medicine_info            \* the dictionary the analyzer returned

env_vars == <<database_source, api_key, camera_opened>>
scanner_vars == <<env_vars, scan_interval, last_scan_time, last_detected_medicine,
                  last_analysis, now, pc, medicine_name, n_results, event, attempted,
                  attempt_start, pre_medicine, pre_analysis, ocr_calls, db_calls,
                  llm_calls, ocr_outcome, llm_outcome, scan_failed, replaced_cached>>
analyzer_vars == <<analyzed_name, create_outcome, parsed_text, medicine_info>>
db_vars == <<db_op, db_query, db_threshold, db_top_n, db_result, db_matches,
             ocr_engine, frame_results, frame_name, frame_calls, analyzer_vars>>
vars == <<medicines, scanner_vars, db_vars>>

----------------------------------------------------------------------------
(* Python values *)

\* Python's None, as a value a str is compared with.
None == <<"None">>

\* bool(x) of an Optional[str]: None and "" are falsy.
Truthy(x) == x # None /\ x # <<>>

UppercaseLetters == <<"A", "B", "C", "D", "E", "F", "G", "H", "I", "J", "K", "L", "M", "N", "O", "P", "Q", "R", "S", "T", "U", "V", "W", "X", "Y", "Z">>
LowercaseLetters == <<"a", "b", "c", "d", "e", "f", "g", "h", "i", "j", "k", "l", "m", "n", "o", "p", "q", "r", "s", "t", "u", "v", "w", "x", "y", "z">>

lowerOf == [c \in {UppercaseLetters[i] : i \in 1..Len(UppercaseLetters)} |->
              LowercaseLetters[CHOOSE i \in 1..Len(UppercaseLetters) : UppercaseLetters[i] = c]]

\* str.lower(), character by character.
Lower(s) == [i \in 1..Len(s) |-> IF s[i] \in DOMAIN lowerOf THEN lowerOf[s[i]] ELSE s[i]]

\* The characters str.strip() removes.
Whitespace == {" ", "\n"}

RECURSIVE LStrip(_)
LStrip(s) == IF s # <<>> /\ Head(s) \in Whitespace THEN LStrip(Tail(s)) ELSE s

RECURSIVE RStrip(_)
RStrip(s) ==
    IF s # <<>> /\ s[Len(s)] \in Whitespace THEN RStrip(SubSeq(s, 1, Len(s) - 1)) ELSE s

\* str.strip()
Strip(s) == RStrip(LStrip(s))

Min(a, b) == IF a <= b THEN a ELSE b
Max(a, b) == IF a >= b THEN a ELSE b

----------------------------------------------------------------------------
(* fuzz.ratio *)

\* The number of matched characters M of the sequence matcher is the length
\* of a longest common subsequence (the matcher of python-Levenshtein, whose
\* ratio is (len(a) + len(b) - indel distance) / (len(a) + len(b)); difflib's
\* matcher gives the same scores on every pair of strings used below).
\* One row of the longest-common-subsequence table: prev is the row of the
\* characters before c, row the part of c's row built so far (column 0 first).
RECURSIVE LcsRow(_, _, _, _)
LcsRow(prev, c, b, row) ==
    IF Len(row) = Len(b) + 1 THEN row
    ELSE LET j == Len(row)
         IN  LcsRow(prev, c, b,
                    Append(row, IF c = b[j] THEN prev[j] + 1
                                ELSE Max(prev[j + 1], row[j])))

RECURSIVE LcsRows(_, _, _)
LcsRows(a, b, prev) ==
    IF a = <<>> THEN prev
    ELSE LcsRows(Tail(a), b, LcsRow(prev, Head(a), b, <<0>>))

Matched(a, b) == LcsRows(a, b, [j \in 1..(Len(b) + 1) |-> 0])[Len(b) + 1]

\* int(round(n / d)) for n, d >= 0, d > 0: Python 3 rounds a half to even.
RoundDiv(n, d) ==
    LET q == n \div d
        r == n % d
    IN  IF 2 * r > d THEN q + 1
        ELSE IF 2 * r < d THEN q
        ELSE IF q % 2 = 0 THEN q ELSE q + 1

\* fuzz.ratio(s1, s2): 100 for equal strings, 0 when either is empty, else
\* int(round(100 * 2 * M / T)).
FuzzRatio(s1, s2) ==
    IF s1 = s2 THEN 100
    ELSE IF s1 = <<>> \/ s2 = <<>> THEN 0
    ELSE RoundDiv(200 * Matched(s1, s2), Len(s1) + Len(s2))

----------------------------------------------------------------------------
(* MedicineDatabase *)

\* df['name'].dropna().str.strip().tolist(): an empty cell is read as NaN and
\* dropped, every other cell is stripped (a cell of blanks becomes "").
RECURSIVE StrippedNames(_)
StrippedNames(cells) ==
    IF cells = <<>> THEN <<>>
    ELSE (IF Head(cells) = <<>> THEN <<>> ELSE <<Strip(Head(cells))>>)
         \o StrippedNames(Tail(cells))

\* _load_database(): what it leaves in self.medicines. A missing file is
\* answered with the empty list; a file that cannot be read (read_csv raises)
\* and a file without a 'name' column (ValueError) end in the except branch,
\* which sets the empty list too. Nothing is raised.
LoadDatabase(source) ==
    IF source.kind = "missing" THEN <<>>
    ELSE IF source.kind = "unreadable" THEN <<>>
    ELSE IF source.kind = "no_name_column" THEN <<>>
    ELSE StrippedNames(source.names)

\* The first loop of search_medicine: the first entry equal to the query,
\* both lowercased; None when the loop ends without returning.
RECURSIVE ExactMatch(_, _)
ExactMatch(meds, query_lower) ==
    IF meds = <<>> THEN None
    ELSE IF Lower(Head(meds)) = query_lower THEN Head(meds)
    ELSE ExactMatch(Tail(meds), query_lower)

\* Whether the first loop of search_medicine returns.
HasExact(meds, query_lower) ==
    \E i \in 1..Len(meds) : Lower(meds[i]) = query_lower

\* The second loop of search_medicine, started from best = <<best_match,
\* best_score>>: an entry replaces the best only with a strictly higher score.
RECURSIVE FuzzyBest(_, _, _)
FuzzyBest(meds, query_lower, best) ==
    IF meds = <<>> THEN best
    ELSE LET score == FuzzRatio(query_lower, Lower(Head(meds)))
         IN  FuzzyBest(Tail(meds), query_lower,
                       IF score > best[2] THEN <<Head(meds), score>> ELSE best)

\* A slip: the exact pass is left out, every query goes through the scores.
SearchMedicineNoExact(meds, query, threshold) ==
    IF meds = <<>> THEN None
    ELSE LET query_lower == Strip(Lower(query))
             best == FuzzyBest(meds, query_lower, <<None, 0>>)
         IN  IF best[2] >= threshold THEN best[1] ELSE None

\* search_medicine(query, threshold)
SearchMedicine(meds, query, threshold) ==
    IF meds = <<>> THEN None
    ELSE LET query_lower == Strip(Lower(query))
         IN  IF HasExact(meds, query_lower) THEN ExactMatch(meds, query_lower)
             ELSE LET best == FuzzyBest(meds, query_lower, <<None, 0>>)
                  IN  IF best[2] >= threshold THEN best[1] ELSE None

\* list.sort(key=score, reverse=True) as an insertion into a sorted list: the
\* sort is stable, so a pair goes after every pair whose score is not lower.
RECURSIVE InsertDesc(_, _)
InsertDesc(sorted, pair) ==
    IF sorted = <<>> THEN <<pair>>
    ELSE IF Head(sorted)[2] >= pair[2] THEN <<Head(sorted)>> \o InsertDesc(Tail(sorted), pair)
    ELSE <<pair>> \o sorted

\* A slip: a pair goes before the pairs of equal score, so ties come out in
\* reverse catalog order (what sorting ascending and reversing would give).
RECURSIVE InsertDescUnstable(_, _)
InsertDescUnstable(sorted, pair) ==
    IF sorted = <<>> THEN <<pair>>
    ELSE IF Head(sorted)[2] > pair[2]
         THEN <<Head(sorted)>> \o InsertDescUnstable(Tail(sorted), pair)
    ELSE <<pair>> \o sorted

RECURSIVE SortDescUnstable(_)
SortDescUnstable(matches) ==
    IF matches = <<>> THEN <<>>
    ELSE InsertDescUnstable(SortDescUnstable(SubSeq(matches, 1, Len(matches) - 1)),
                            matches[Len(matches)])

RECURSIVE SortDesc(_)
SortDesc(matches) ==
    IF matches = <<>> THEN <<>>
    ELSE InsertDesc(SortDesc(SubSeq(matches, 1, Len(matches) - 1)), matches[Len(matches)])

\* get_best_matches(query, top_n), for top_n >= 0: matches[:top_n].
GetBestMatches(meds, query, top_n) ==
    IF meds = <<>> THEN <<>>
    ELSE LET query_lower == Strip(Lower(query))
             matches == [i \in 1..Len(meds) |->
                           <<meds[i], FuzzRatio(query_lower, Lower(meds[i]))>>]
             sorted == SortDesc(matches)
         IN  SubSeq(sorted, 1, Min(top_n, Len(sorted)))

\* add_medicine(new_name): the stripped name is appended unless it is
\* empty or already an entry (compared exactly, case included).
AddedMedicines(meds, new_name) ==
    LET name == Strip(new_name)
    IN  IF name # <<>> /\ ~(\E i \in 1..Len(meds) : meds[i] = name)
        THEN Append(meds, name) ELSE meds

----------------------------------------------------------------------------
(* OCRReader *)

\* ocr.confidence_threshold, in hundredths (the default 0.5).
ConfidenceThreshold == 50

\* A slip: a result at the threshold is dropped.
RECURSIVE FilterByConfidenceStrict(_)
FilterByConfidenceStrict(results) ==
    IF results = <<>> THEN <<>>
    ELSE (IF Head(results)[2] > ConfidenceThreshold THEN <<Head(results)>> ELSE <<>>)
         \o FilterByConfidenceStrict(Tail(results))

RECURSIVE FilterByConfidence(_)
FilterByConfidence(results) ==
    IF results = <<>> THEN <<>>
    ELSE (IF Head(results)[2] >= ConfidenceThreshold THEN <<Head(results)>> ELSE <<>>)
         \o FilterByConfidence(Tail(results))

\* read_text_from_frame(frame). engine is what reader.readtext does on the
\* frame: it raises (ok = FALSE) or returns results, here the (text,
\* confidence) part of each (bbox, text, confidence).
ReadTextFromFrame(engine) ==
    IF ~engine.ok THEN <<>> ELSE FilterByConfidence(engine.results)

----------------------------------------------------------------------------
(* MedicineScanner._detect_medicine_from_frame *)

\* search_medicine's default threshold.
DefaultThreshold == 80
\* An unmatched text is taken as a name above this confidence (0.7) ...
HighConfidence == 70
\* ... when its stripped text is longer than this.
MinNameLength == 3

\* A slip: the catalog matches of all observations are tried before any
\* unverified text is taken.
RECURSIVE FirstCatalogMatch(_, _)
FirstCatalogMatch(text_results, meds) ==
    IF text_results = <<>> THEN None
    ELSE LET matched_medicine ==
                 SearchMedicine(meds, Strip(Head(text_results)[1]), DefaultThreshold)
         IN  IF Truthy(matched_medicine) THEN matched_medicine
             ELSE FirstCatalogMatch(Tail(text_results), meds)

RECURSIVE FirstHighConfidence(_)
FirstHighConfidence(text_results) ==
    IF text_results = <<>> THEN None
    ELSE LET text_cleaned == Strip(Head(text_results)[1])
         IN  IF Head(text_results)[2] > HighConfidence /\ Len(text_cleaned) > MinNameLength
             THEN text_cleaned
             ELSE FirstHighConfidence(Tail(text_results))

DetectMedicineMatchesFirst(text_results, meds) ==
    IF Truthy(FirstCatalogMatch(text_results, meds))
    THEN FirstCatalogMatch(text_results, meds)
    ELSE FirstHighConfidence(text_results)

\* A slip: >= for >, and the length of the text before the strip.
RECURSIVE DetectMedicineLoose(_, _)
DetectMedicineLoose(text_results, meds) ==
    IF text_results = <<>> THEN None
    ELSE LET text == Head(text_results)[1]
             confidence == Head(text_results)[2]
             text_cleaned == Strip(text)
             matched_medicine == SearchMedicine(meds, text_cleaned, DefaultThreshold)
         IN  IF Truthy(matched_medicine) THEN matched_medicine
             ELSE IF confidence >= HighConfidence /\ Len(text) > MinNameLength
                  THEN text_cleaned
             ELSE DetectMedicineLoose(Tail(text_results), meds)

\* A slip: a catalog match is taken only from a confident observation.
RECURSIVE DetectMedicineConfidentOnly(_, _)
DetectMedicineConfidentOnly(text_results, meds) ==
    IF text_results = <<>> THEN None
    ELSE LET text == Head(text_results)[1]
             confidence == Head(text_results)[2]
             text_cleaned == Strip(text)
             matched_medicine == SearchMedicine(meds, text_cleaned, DefaultThreshold)
         IN  IF Truthy(matched_medicine) /\ confidence > HighConfidence
             THEN matched_medicine
             ELSE IF confidence > HighConfidence /\ Len(text_cleaned) > MinNameLength
                  THEN text_cleaned
             ELSE DetectMedicineConfidentOnly(Tail(text_results), meds)

\* The loop of _detect_medicine_from_frame over text_results (an empty
\* text_results returns None before the loop, as the loop does).
RECURSIVE DetectMedicine(_, _)
DetectMedicine(text_results, meds) ==
    IF text_results = <<>> THEN None
    ELSE LET text == Head(text_results)[1]
             confidence == Head(text_results)[2]
             text_cleaned == Strip(text)
             matched_medicine == SearchMedicine(meds, text_cleaned, DefaultThreshold)
         IN  IF Truthy(matched_medicine) THEN matched_medicine
             ELSE IF confidence > HighConfidence /\ Len(text_cleaned) > MinNameLength
                  THEN text_cleaned
             ELSE DetectMedicine(Tail(text_results), meds)

\* The number of search_medicine calls that loop makes: one per observation
\* up to and including the one it returns on.
RECURSIVE SearchCalls(_, _)
SearchCalls(text_results, meds) ==
    IF text_results = <<>> THEN 0
    ELSE IF Truthy(DetectMedicine(<<Head(text_results)>>, meds)) THEN 1
    ELSE 1 + SearchCalls(Tail(text_results), meds)

----------------------------------------------------------------------------
(* MedicineLLMAnalyzer *)

Unknown == <<"U", "n", "k", "n", "o", "w", "n">>
Error == <<"E", "r", "r", "o", "r">>
FailedToAnalyze == <<"F", "a", "i", "l", "e", "d", " ", "t", "o", " ", "a", "n", "a", "l", "y", "z", "e", ":", " ">>

\* str.split(sep) for a one-character sep.
RECURSIVE SplitFrom(_, _, _)
SplitFrom(s, sep, current) ==
    IF s = <<>> THEN <<current>>
    ELSE IF Head(s) = sep THEN <<current>> \o SplitFrom(Tail(s), sep, <<>>)
    ELSE SplitFrom(Tail(s), sep, Append(current, Head(s)))

Split(s, sep) == SplitFrom(s, sep, <<>>)

\* A slip: the key is compared as written, without lower().
ParseLineCaseSensitive(info, raw_line) ==
    LET line == Strip(raw_line)
    IN  IF \E i \in 1..Len(line) : line[i] = ":"
        THEN LET colon == CHOOSE i \in 1..Len(line) :
                              line[i] = ":" /\ \A j \in 1..(i - 1) : line[j] # ":"
                 key == Strip(SubSeq(line, 1, colon - 1))
                 value == Strip(SubSeq(line, colon + 1, Len(line)))
             IN  IF key = <<"t", "y", "p", "e">> THEN [info EXCEPT !.type = value]
                 ELSE IF key = <<"u", "s", "e">> THEN [info EXCEPT !.use = value]
                 ELSE IF key = <<"c", "l", "a", "s", "s">> THEN [info EXCEPT !.drug_class = value]
                 ELSE IF key = <<"f", "o", "r", "m">> THEN [info EXCEPT !.form = value]
                 ELSE info
        ELSE info

\* The body of _parse_llm_response's loop for one line.
ParseLine(info, raw_line) ==
    LET line == Strip(raw_line)
    IN  IF \E i \in 1..Len(line) : line[i] = ":"
        THEN LET colon == CHOOSE i \in 1..Len(line) :
                              line[i] = ":" /\ \A j \in 1..(i - 1) : line[j] # ":"
                 key == Lower(Strip(SubSeq(line, 1, colon - 1)))
                 value == Strip(SubSeq(line, colon + 1, Len(line)))
             IN  IF key = <<"t", "y", "p", "e">> THEN [info EXCEPT !.type = value]
                 ELSE IF key = <<"u", "s", "e">> THEN [info EXCEPT !.use = value]
                 ELSE IF key = <<"c", "l", "a", "s", "s">> THEN [info EXCEPT !.drug_class = value]
                 ELSE IF key = <<"f", "o", "r", "m">> THEN [info EXCEPT !.form = value]
                 ELSE info
        ELSE info

RECURSIVE ParseLines(_, _)
ParseLines(info, lines) ==
    IF lines = <<>> THEN info ELSE ParseLines(ParseLine(info, Head(lines)), Tail(lines))

\* _parse_llm_response(response_text)
ParseLLMResponse(response_text) ==
    ParseLines([type |-> Unknown, use |-> Unknown, drug_class |-> Unknown, form |-> Unknown],
               Split(Strip(response_text), "\n"))

\* str(e) when message.content is None and .strip() raises AttributeError.
NoneHasNoStrip == <<"'", "N", "o", "n", "e", "T", "y", "p", "e", "'", " ", "o", "b", "j", "e", "c", "t", " ", "h", "a", "s", " ", "n", "o", " ", "a", "t", "t", "r", "i", "b", "u", "t", "e", " ", "'", "s", "t", "r", "i", "p", "'">>

\* str(e) when response.choices is empty and choices[0] raises IndexError.
ListIndexOutOfRange == <<"l", "i", "s", "t", " ", "i", "n", "d", "e", "x", " ", "o", "u", "t", " ", "o", "f", " ", "r", "a", "n", "g", "e">>

\* The dictionary of analyze_medicine's except branch.
ErrorInfo(message) ==
    [type |-> Error, use |-> FailedToAnalyze \o message, drug_class |-> Unknown,
     form |-> Unknown]

\* A slip: a failed call reported as an unrecognized medicine.
AnalyzeMedicineHidingFailure(name, outcome) ==
    IF outcome.kind = "text" THEN ParseLLMResponse(Strip(outcome.content))
    ELSE [type |-> Unknown, use |-> Unknown, drug_class |-> Unknown, form |-> Unknown]

\* A slip: the except clause catches the API's errors only, and what the
\* handling of the response raises leaves analyze_medicine.
AnalyzeMedicinePropagating(name, outcome) ==
    IF outcome.kind = "text" THEN ParseLLMResponse(Strip(outcome.content))
    ELSE IF outcome.kind = "no_content" THEN [raised |-> NoneHasNoStrip]
    ELSE IF outcome.kind = "no_choices" THEN [raised |-> ListIndexOutOfRange]
    ELSE ErrorInfo(outcome.message)

\* analyze_medicine(medicine_name). outcome is what chat.completions.create
\* does: it returns a message with a text content ("text"), a message whose
\* content is None ("no_content"), a response without choices ("no_choices"),
\* or raises an exception e ("raise", with str(e)). A dictionary is returned
\* in every case; [raised |-> m] would be an exception leaving the function.
AnalyzeMedicine(name, outcome) ==
    IF outcome.kind = "text" THEN ParseLLMResponse(Strip(outcome.content))
    ELSE IF outcome.kind = "no_content" THEN ErrorInfo(NoneHasNoStrip)
    ELSE IF outcome.kind = "no_choices" THEN ErrorInfo(ListIndexOutOfRange)
    ELSE ErrorInfo(outcome.message)

\* Python's None where a dictionary is expected.
NoneInfo == [none |-> TRUE]

----------------------------------------------------------------------------
(* MedicineScanner *)

\* A slip: the difference is taken the other way round.
ShouldScanSwapped(current_time, last, interval) == (last - current_time) >= interval

\* _should_scan(), with current_time the clock's reading.
ShouldScan(current_time, last, interval) == (current_time - last) >= interval

----------------------------------------------------------------------------
(* Inputs *)

Aspirin == <<"A", "s", "p", "i", "r", "i", "n">>
aspirin == <<"a", "s", "p", "i", "r", "i", "n">>
Aspirn  == <<"A", "s", "p", "i", "r", "n">>
Aspro   == <<"A", "s", "p", "r", "o">>
XYZ123  == <<"X", "Y", "Z", "1", "2", "3">>
XYZ1    == <<"X", "Y", "Z", "1">>

\* What _load_database leaves in self.medicines: the stripped, non-null names
\* of the CSV in file order (a blank name cell is read as "" after the strip);
\* the empty list when the file is missing or unreadable.
Catalogs == { <<>>,
              <<Aspirin, Aspro>>,
              <<aspirin, Aspirin>>,
              <<Aspro, <<>>, Aspirin>> }

\* The strings a caller searches for.
Queries == { Aspirin, aspirin, Aspirn, Aspro, XYZ123, <<>>,
             <<" ", "A", "S", "P", "I", "R", "I", "N", " ">>,
             <<"A", "s", "p", "r">> }

\* The thresholds a caller passes: the default 80, the ends of the score
\* range, one above it, and scores the queries reach (89, 92).
Thresholds == {0, 80, 89, 92, 93, 100, 101}

\* The names a caller adds.
NewNames == { aspirin, <<" ", "A", "s", "p", "r", "o", " ">>, <<" ">> }

\* The longest catalog add_medicine grows.
MaxCatalog == 3
\* The largest top_n passed to get_best_matches.
MaxTopN == 4
\* The most results the OCR engine returns for a frame.
MaxObs == 2

\* Every sequence of at most MaxObs elements of pool.
SeqsUpTo(pool) == UNION {[1..n -> pool] : n \in 0..MaxObs}

\* What the OCR engine does on a frame: it raises, or returns at most MaxObs
\* (text, confidence) results of pool.
Engines(pool) == {[ok |-> FALSE, results |-> <<>>]}
                 \cup {[ok |-> TRUE, results |-> r] : r \in SeqsUpTo(pool)}

\* The results of the frames given to _detect_medicine_from_frame directly:
\* a misspelt and an exactly spelt catalog name at low confidence, texts in no
\* catalog at and around the confidence and length limits, a blank text, and a
\* result under the OCR threshold.
DetectPool == { <<Aspirn, 60>>, <<aspirin, 50>>, <<XYZ123, 90>>,
                <<<<"a", "b">>, 95>>, <<<<" ", "X", "Y", "Z">>, 90>>,
                <<<<"X", "Y", "Z", "1", " ">>, 70>>, <<<<"X", "Y", "Z", "1", " ">>, 71>>,
                <<<<" ">>, 90>>, <<Aspro, 40>> }

\* The results of the frames the running scanner sees: a misspelt catalog
\* name, a text in no catalog, a blank text, and a result under the OCR
\* threshold.
ScanPool == { <<Aspirn, 60>>, <<XYZ123, 90>>, <<<<" ">>, 90>>, <<Aspro, 40>> }

\* The catalog file the scanner is started on: a CSV with a 'name' column
\* (its cells: a name, a cell of blanks, a name with blanks around it, an empty
\* cell), no file, a file read_csv fails on, a CSV without a 'name' column.
CatalogSources ==
    { [kind |-> "csv",
       names |-> <<Aspirin, <<" ">>, <<" ", "A", "s", "p", "r", "o", " ">>, <<>>>>],
      [kind |-> "missing"],
      [kind |-> "unreadable"],
      [kind |-> "no_name_column"] }

\* The API key of the configuration: unset, or set.
ApiKeys == { <<>>, <<"s", "k">> }

\* What the classification call does: a full response, a response without
\* the Class and Form lines, no content, an exception.
LLMOutcomes ==
    { [kind |-> "text", content |-> <<"T", "y", "p", "e", ":", " ", "N", "S", "A", "I", "D", "\n", "U", "s", "e", ":", " ", "P", "a", "i", "n", "\n", "C", "l", "a", "s", "s", ":", " ", "C", "O", "X", "\n", "F", "o", "r", "m", ":", " ", "T", "a", "b", "l", "e", "t">>],
      [kind |-> "text", content |-> <<" ", "u", "s", "e", " ", ":", " ", "P", "a", "i", "n", "\n", "T", "Y", "P", "E", ":", "N", "S", "A", "I", "D", "\n">>],
      [kind |-> "no_content"],
      [kind |-> "raise", message |-> <<"t", "i", "m", "e", "o", "u", "t">>] }

\* The response texts given to _parse_llm_response directly: the format asked
\* for; keys out of order, in other cases and with blanks around them; prose
\* and an unknown key between the lines; the empty text; a value with a colon
\* and an empty value; a key twice; no colon at all; blank lines.
ResponseTexts ==
    { <<"T", "y", "p", "e", ":", " ", "N", "S", "A", "I", "D", "\n", "U", "s", "e", ":", " ", "P", "a", "i", "n", "\n", "C", "l", "a", "s", "s", ":", " ", "C", "O", "X", "\n", "F", "o", "r", "m", ":", " ", "T", "a", "b", "l", "e", "t">>,
      <<" ", "u", "s", "e", " ", ":", " ", "P", "a", "i", "n", "\n", "T", "Y", "P", "E", ":", "N", "S", "A", "I", "D", "\n">>,
      <<"S", "u", "r", "e", "!", "\n", "F", "o", "r", "m", ":", " ", "G", "e", "l", "\n", "n", "o", "t", "e", ":", " ", "x", "\n", "T", "y", "p", "e", ":", " ", "A">>,
      <<>>,
      <<"U", "s", "e", ":", " ", "a", ":", " ", "b", "\n", "F", "o", "r", "m", ":">>,
      <<"T", "y", "p", "e", ":", " ", "A", "\n", "T", "y", "p", "e", ":", " ", "B">>,
      <<"n", "o", " ", "c", "o", "l", "o", "n">>,
      <<"\n", "\n", " ", " ", "C", "l", "a", "s", "s", " ", ":", " ", " ", "X", " ", " ", "\n", " ", "\n">> }

\* What the classification call does when analyze_medicine is called directly:
\* those, an empty and a blank content, a response without choices, and an
\* exception with an empty message.
AnalyzerOutcomes ==
    LLMOutcomes \cup
    { [kind |-> "text", content |-> <<>>],
      [kind |-> "text", content |-> <<" ", "\n">>],
      [kind |-> "no_choices"],
      [kind |-> "raise", message |-> <<>>] }

\* The names analyze_medicine is called with directly.
AnalyzedNames == { Aspirin, XYZ123, <<>> }

\* scanner.scan_interval_seconds of the configuration: 0, or the default.
ScanIntervalDefault == 2
Intervals == {0, ScanIntervalDefault}

\* The clock's reading when the scanner is constructed (seconds since the
\* epoch: far more than any scan interval), and how far the clock is followed.
StartTime == 10
TimeSpan == 3

----------------------------------------------------------------------------
(* Initial states *)

\* The scanner state MedicineScanner.__init__ sets.
ScannerFields ==
    /\ last_scan_time = 0
    /\ last_detected_medicine = None
    /\ last_analysis = NoneInfo
    /\ now = StartTime
    /\ medicine_name = None
    /\ n_results = 0
    /\ event = "start"
    /\ attempted = FALSE
    /\ attempt_start = 0
    /\ pre_medicine = None
    /\ pre_analysis = NoneInfo
    /\ ocr_calls = 0
    /\ db_calls = 0
    /\ llm_calls = 0
    /\ ocr_outcome = "none"
    /\ llm_outcome = "none"
    /\ scan_failed = FALSE
    /\ replaced_cached = FALSE

\* A scanner constructed on the catalog in self.medicines, before run.
ScannerStart ==
    /\ database_source = [kind |-> "csv", names |-> medicines]
    /\ api_key = <<"s", "k">>
    /\ camera_opened = TRUE
    /\ pc = "loop"
    /\ ScannerFields

\* No direct call in progress.
DbIdle ==
    /\ db_op = "none"
    /\ db_query = <<>>
    /\ db_threshold = DefaultThreshold
    /\ db_top_n = 0
    /\ db_result = None
    /\ db_matches = <<>>
    /\ ocr_engine = [ok |-> TRUE, results |-> <<>>]
    /\ frame_results = <<>>
    /\ frame_name = None
    /\ frame_calls = 0
    /\ analyzed_name = None
    /\ create_outcome = [kind |-> "none"]
    /\ parsed_text = None
    /\ medicine_info = NoneInfo

----------------------------------------------------------------------------
(* The components called directly: search_medicine, get_best_matches,
   add_medicine and _detect_medicine_from_frame, one call at a time on a
   loaded catalog. *)

DbInit ==
    /\ medicines \in Catalogs
    /\ scan_interval = ScanIntervalDefault
    /\ ScannerStart
    /\ DbIdle

DbSearch ==
    /\ db_op = "none"
    /\ \E query \in Queries, threshold \in Thresholds :
        /\ db_op' = "search"
        /\ db_query' = query
        /\ db_threshold' = threshold
        /\ db_result' = SearchMedicine(medicines, query, threshold)
    /\ UNCHANGED <<medicines, scanner_vars, db_top_n, db_matches, ocr_engine,
                   frame_results, frame_name, frame_calls, analyzer_vars>>

DbBestMatches ==
    /\ db_op = "none"
    /\ \E query \in Queries, top_n \in 0..MaxTopN :
        /\ db_op' = "best_matches"
        /\ db_query' = query
        /\ db_top_n' = top_n
        /\ db_matches' = GetBestMatches(medicines, query, top_n)
    /\ UNCHANGED <<medicines, scanner_vars, db_threshold, db_result, ocr_engine,
                   frame_results, frame_name, frame_calls, analyzer_vars>>

DbAdd ==
    /\ db_op = "none"
    /\ Len(medicines) < MaxCatalog
    /\ \E name \in NewNames :
        /\ medicines' = AddedMedicines(medicines, name)
        /\ db_op' = "add"
        /\ db_query' = name
    /\ UNCHANGED <<scanner_vars, db_threshold, db_top_n, db_result, db_matches,
                   ocr_engine, frame_results, frame_name, frame_calls, analyzer_vars>>

FrameDetect ==
    /\ db_op = "none"
    /\ \E engine \in Engines(DetectPool) :
        LET text_results == ReadTextFromFrame(engine)
        IN  /\ db_op' = "detect"
            /\ ocr_engine' = engine
            /\ frame_results' = text_results
            /\ frame_name' = DetectMedicine(text_results, medicines)
            /\ frame_calls' = SearchCalls(text_results, medicines)
    /\ UNCHANGED <<medicines, scanner_vars, db_query, db_threshold, db_top_n,
                   db_result, db_matches, analyzer_vars>>

\* analyze_medicine(name) called directly.
DbAnalyze ==
    /\ db_op = "none"
    /\ \E name \in AnalyzedNames, outcome \in AnalyzerOutcomes :
        /\ db_op' = "analyze"
        /\ analyzed_name' = name
        /\ create_outcome' = outcome
        /\ medicine_info' = AnalyzeMedicine(name, outcome)
    /\ UNCHANGED <<medicines, scanner_vars, db_query, db_threshold, db_top_n,
                   db_result, db_matches, ocr_engine, frame_results, frame_name,
                   frame_calls, parsed_text>>

\* _parse_llm_response(text) called directly.
DbParse ==
    /\ db_op = "none"
    /\ \E text \in ResponseTexts :
        /\ db_op' = "parse"
        /\ parsed_text' = text
        /\ medicine_info' = ParseLLMResponse(text)
    /\ UNCHANGED <<medicines, scanner_vars, db_query, db_threshold, db_top_n,
                   db_result, db_matches, ocr_engine, frame_results, frame_name,
                   frame_calls, analyzed_name, create_outcome>>

\* The caller has read the result and is ready for its next call.
DbReturn ==
    /\ db_op # "none"
    /\ db_op' = "none"
    /\ db_query' = <<>>
    /\ db_threshold' = DefaultThreshold
    /\ db_top_n' = 0
    /\ db_result' = None
    /\ db_matches' = <<>>
    /\ ocr_engine' = [ok |-> TRUE, results |-> <<>>]
    /\ frame_results' = <<>>
    /\ frame_name' = None
    /\ frame_calls' = 0
    /\ analyzed_name' = None
    /\ create_outcome' = [kind |-> "none"]
    /\ parsed_text' = None
    /\ medicine_info' = NoneInfo
    /\ UNCHANGED <<medicines, scanner_vars>>

DbNext ==
    \/ DbSearch \/ DbBestMatches \/ DbAdd \/ FrameDetect \/ DbAnalyze \/ DbParse
    \/ DbReturn

DbSpec == DbInit /\ [][DbNext]_vars

----------------------------------------------------------------------------
(* The running scanner: MedicineScanner.run and _perform_scan *)

\* The program is started: main has not constructed the scanner yet.
Init ==
    /\ database_source \in CatalogSources
    /\ api_key \in ApiKeys
    /\ camera_opened \in BOOLEAN
    /\ medicines = <<>>
    /\ scan_interval \in Intervals
    /\ pc = "startup"
    /\ ScannerFields
    /\ DbIdle

\* main's MedicineScanner() (the configuration file and the OCR reader taken
\* as loaded): _initialize_llm raises ValueError when the API key is unset;
\* _initialize_database builds the MedicineDatabase, whose _load_database
\* raises nothing; _initialize_camera raises RuntimeError when the camera
\* does not open. An exception is caught by main, which prints it and ends;
\* otherwise run is entered.
Construct ==
    /\ pc = "startup"
    /\ IF ~Truthy(api_key)
       THEN /\ pc' = "halted"
            /\ event' = "no_api_key"
            /\ UNCHANGED medicines
       ELSE /\ medicines' = LoadDatabase(database_source)
            /\ pc' = IF camera_opened THEN "loop" ELSE "halted"
            /\ event' = IF camera_opened THEN "start" ELSE "no_camera"
    /\ UNCHANGED <<env_vars, scan_interval, last_scan_time, last_detected_medicine,
                   last_analysis, now, medicine_name, n_results, attempted,
                   attempt_start, pre_medicine, pre_analysis, ocr_calls, db_calls,
                   llm_calls, ocr_outcome, llm_outcome, scan_failed, replaced_cached, db_vars>>

\* A slip: the scan time is not taken when the attempt begins.
PerformScanStartUntimed(trigger) ==
    /\ pc' = "ocr"
    /\ event' = trigger
    /\ attempted' = TRUE
    /\ attempt_start' = now
    /\ pre_medicine' = last_detected_medicine
    /\ pre_analysis' = last_analysis
    /\ medicine_name' = None
    /\ n_results' = 0
    /\ ocr_calls' = 0
    /\ db_calls' = 0
    /\ llm_calls' = 0
    /\ ocr_outcome' = "none"
    /\ llm_outcome' = "none"
    /\ replaced_cached' = FALSE
    /\ UNCHANGED <<medicines, env_vars, scan_interval, last_scan_time, last_detected_medicine,
                   last_analysis, now, scan_failed, db_vars>>

\* The start of _perform_scan(frame): last_scan_time = time.time(), before
\* the detection is called.
PerformScanStart(trigger) ==
    /\ last_scan_time' = now
    /\ pc' = "ocr"
    /\ event' = trigger
    /\ attempted' = TRUE
    /\ attempt_start' = now
    /\ pre_medicine' = last_detected_medicine
    /\ pre_analysis' = last_analysis
    /\ medicine_name' = None
    /\ n_results' = 0
    /\ ocr_calls' = 0
    /\ db_calls' = 0
    /\ llm_calls' = 0
    /\ ocr_outcome' = "none"
    /\ llm_outcome' = "none"
    /\ replaced_cached' = FALSE
    /\ UNCHANGED <<medicines, env_vars, scan_interval, last_detected_medicine, last_analysis,
                   now, scan_failed, db_vars>>

\* A loop iteration that reads no frame: run leaves the loop and cleans up.
CameraFail ==
    /\ pc = "loop"
    /\ pc' = "stopped"
    /\ event' = "camera_fail"
    /\ UNCHANGED <<medicines, env_vars, scan_interval, last_scan_time, last_detected_medicine,
                   last_analysis, now, medicine_name, n_results, attempted,
                   attempt_start, pre_medicine, pre_analysis, ocr_calls, db_calls,
                   llm_calls, ocr_outcome, llm_outcome, scan_failed, replaced_cached, db_vars>>

\* A loop iteration with the key q or Q.
Quit ==
    /\ pc = "loop"
    /\ pc' = "stopped"
    /\ event' = "quit"
    /\ UNCHANGED <<medicines, env_vars, scan_interval, last_scan_time, last_detected_medicine,
                   last_analysis, now, medicine_name, n_results, attempted,
                   attempt_start, pre_medicine, pre_analysis, ocr_calls, db_calls,
                   llm_calls, ocr_outcome, llm_outcome, scan_failed, replaced_cached, db_vars>>

\* A loop iteration with the key s or S.
ManualScan ==
    /\ pc = "loop"
    /\ PerformScanStart("manual_scan")

\* A slip: the reset forgets the name.
ResetAnalysisOnly ==
    /\ pc = "loop"
    /\ last_analysis' = NoneInfo
    /\ event' = "reset"
    /\ UNCHANGED <<medicines, env_vars, scan_interval, last_scan_time, last_detected_medicine, now, pc,
                   medicine_name, n_results, attempted, attempt_start, pre_medicine,
                   pre_analysis, ocr_calls, db_calls, llm_calls, ocr_outcome,
                   llm_outcome, scan_failed, replaced_cached, db_vars>>

\* A slip: the reset forgets the classification.
ResetNameOnly ==
    /\ pc = "loop"
    /\ last_detected_medicine' = None
    /\ event' = "reset"
    /\ UNCHANGED <<medicines, env_vars, scan_interval, last_scan_time, last_analysis, now, pc,
                   medicine_name, n_results, attempted, attempt_start, pre_medicine,
                   pre_analysis, ocr_calls, db_calls, llm_calls, ocr_outcome,
                   llm_outcome, scan_failed, replaced_cached, db_vars>>

\* A loop iteration with the key r or R.
Reset ==
    /\ pc = "loop"
    /\ last_detected_medicine' = None
    /\ last_analysis' = NoneInfo
    /\ event' = "reset"
    /\ UNCHANGED <<medicines, env_vars, scan_interval, last_scan_time, now, pc, medicine_name,
                   n_results, attempted, attempt_start, pre_medicine, pre_analysis,
                   ocr_calls, db_calls, llm_calls, ocr_outcome, llm_outcome, scan_failed, replaced_cached, db_vars>>

\* A slip: the automatic scan does not ask _should_scan().
AutoScanUnguarded ==
    /\ pc = "loop"
    /\ PerformScanStart("auto_scan")

\* A loop iteration with none of these keys, when _should_scan() is true.
AutoScan ==
    /\ pc = "loop"
    /\ ShouldScan(now, last_scan_time, scan_interval)
    /\ PerformScanStart("auto_scan")

\* A loop iteration with none of these keys, when _should_scan() is false.
Idle ==
    /\ pc = "loop"
    /\ ~ShouldScan(now, last_scan_time, scan_interval)
    /\ event' = "idle"
    /\ UNCHANGED <<medicines, env_vars, scan_interval, last_scan_time, last_detected_medicine,
                   last_analysis, now, pc, medicine_name, n_results, attempted,
                   attempt_start, pre_medicine, pre_analysis, ocr_calls, db_calls,
                   llm_calls, ocr_outcome, llm_outcome, scan_failed, replaced_cached, db_vars>>

\* A slip: a failed OCR call is tried once more.
DetectRetrying ==
    /\ pc = "ocr"
    /\ \E engine \in Engines(ScanPool) :
        LET text_results == ReadTextFromFrame(engine)
        IN  /\ ocr_calls' = ocr_calls + 1
            /\ ocr_outcome' = IF engine.ok THEN "ok" ELSE "fail"
            /\ n_results' = Len(text_results)
            /\ medicine_name' = DetectMedicine(text_results, medicines)
            /\ db_calls' = db_calls + SearchCalls(text_results, medicines)
            /\ pc' = IF ~engine.ok /\ ocr_calls = 0 THEN "ocr" ELSE "detected"
    /\ UNCHANGED <<medicines, env_vars, scan_interval, last_scan_time, last_detected_medicine,
                   last_analysis, now, event, attempted, attempt_start, pre_medicine,
                   pre_analysis, llm_calls, llm_outcome, scan_failed, replaced_cached, db_vars>>

\* _perform_scan's call of _detect_medicine_from_frame(frame): one call of the
\* OCR reader, then the loop over its results.
Detect ==
    /\ pc = "ocr"
    /\ \E engine \in Engines(ScanPool) :
        LET text_results == ReadTextFromFrame(engine)
        IN  /\ ocr_calls' = ocr_calls + 1
            /\ ocr_outcome' = IF engine.ok THEN "ok" ELSE "fail"
            /\ n_results' = Len(text_results)
            /\ medicine_name' = DetectMedicine(text_results, medicines)
            /\ db_calls' = db_calls + SearchCalls(text_results, medicines)
    /\ pc' = "detected"
    /\ UNCHANGED <<medicines, env_vars, scan_interval, last_scan_time, last_detected_medicine,
                   last_analysis, now, event, attempted, attempt_start, pre_medicine,
                   pre_analysis, llm_calls, llm_outcome, scan_failed, replaced_cached, db_vars>>

\* A slip: the new classification is merged into the cached one, a field the
\* classifier left "Unknown" keeping its cached value.
MergedInfo(old, new) ==
    IF old = NoneInfo THEN new
    ELSE [type |-> IF new.type = Unknown THEN old.type ELSE new.type,
          use |-> IF new.use = Unknown THEN old.use ELSE new.use,
          drug_class |-> IF new.drug_class = Unknown THEN old.drug_class
                         ELSE new.drug_class,
          form |-> IF new.form = Unknown THEN old.form ELSE new.form]

StoreResultsMerging ==
    /\ pc = "detected"
    /\ Truthy(medicine_name)
    /\ \E outcome \in LLMOutcomes :
        /\ llm_calls' = llm_calls + 1
        /\ llm_outcome' = IF outcome.kind = "text" THEN "ok" ELSE "fail"
        /\ scan_failed' = (scan_failed \/ outcome.kind # "text")
        /\ last_detected_medicine' = medicine_name
        /\ last_analysis' = MergedInfo(last_analysis, AnalyzeMedicine(medicine_name, outcome))
    /\ pc' = "loop"
    /\ event' = "finish"
    /\ pre_medicine' = None
    /\ pre_analysis' = NoneInfo
    /\ replaced_cached' = (last_detected_medicine # None)
    /\ UNCHANGED <<medicines, env_vars, scan_interval, last_scan_time, now, medicine_name,
                   n_results, attempted, attempt_start, ocr_calls, db_calls,
                   ocr_outcome, db_vars>>

\* The rest of _perform_scan when medicine_name is truthy: one call of the
\* classifier, and the pair stored.
StoreResults ==
    /\ pc = "detected"
    /\ Truthy(medicine_name)
    /\ \E outcome \in LLMOutcomes :
        /\ llm_calls' = llm_calls + 1
        /\ llm_outcome' = IF outcome.kind = "text" THEN "ok" ELSE "fail"
        /\ scan_failed' = (scan_failed \/ outcome.kind # "text")
        /\ last_detected_medicine' = medicine_name
        /\ last_analysis' = AnalyzeMedicine(medicine_name, outcome)
    /\ pc' = "loop"
    /\ event' = "finish"
    /\ pre_medicine' = None
    /\ pre_analysis' = NoneInfo
    /\ replaced_cached' = (last_detected_medicine # None)
    /\ UNCHANGED <<medicines, env_vars, scan_interval, last_scan_time, now, medicine_name,
                   n_results, attempted, attempt_start, ocr_calls, db_calls,
                   ocr_outcome, db_vars>>

\* A slip: a scan that detects nothing clears what was shown.
ReportNoMedicineClearing ==
    /\ pc = "detected"
    /\ ~Truthy(medicine_name)
    /\ last_detected_medicine' = None
    /\ last_analysis' = NoneInfo
    /\ pc' = "loop"
    /\ scan_failed' = TRUE
    /\ event' = "finish"
    /\ pre_medicine' = None
    /\ pre_analysis' = NoneInfo
    /\ UNCHANGED <<medicines, env_vars, scan_interval, last_scan_time, now, medicine_name,
                   n_results, attempted, attempt_start, ocr_calls, db_calls, llm_calls,
                   ocr_outcome, llm_outcome, replaced_cached, db_vars>>

\* A slip: the classifier is asked about a scan that detected nothing.
ReportNoMedicineAnalyzing ==
    /\ pc = "detected"
    /\ ~Truthy(medicine_name)
    /\ llm_calls' = llm_calls + 1
    /\ pc' = "loop"
    /\ scan_failed' = TRUE
    /\ event' = "finish"
    /\ pre_medicine' = None
    /\ pre_analysis' = NoneInfo
    /\ UNCHANGED <<medicines, env_vars, scan_interval, last_scan_time, last_detected_medicine,
                   last_analysis, now, medicine_name, n_results, attempted,
                   attempt_start, ocr_calls, db_calls, ocr_outcome, llm_outcome,
                   replaced_cached, db_vars>>

\* A slip: an extraction failure ends the loop.
ReportNoMedicineStopping ==
    /\ pc = "detected"
    /\ ~Truthy(medicine_name)
    /\ pc' = IF ocr_outcome = "fail" THEN "stopped" ELSE "loop"
    /\ scan_failed' = TRUE
    /\ event' = "finish"
    /\ pre_medicine' = None
    /\ pre_analysis' = NoneInfo
    /\ UNCHANGED <<medicines, env_vars, scan_interval, last_scan_time, last_detected_medicine,
                   last_analysis, now, medicine_name, n_results, attempted,
                   attempt_start, ocr_calls, db_calls, llm_calls, ocr_outcome,
                   llm_outcome, replaced_cached, db_vars>>

\* The rest of _perform_scan when medicine_name is None: a message, no more.
ReportNoMedicine ==
    /\ pc = "detected"
    /\ ~Truthy(medicine_name)
    /\ pc' = "loop"
    /\ scan_failed' = TRUE
    /\ event' = "finish"
    /\ pre_medicine' = None
    /\ pre_analysis' = NoneInfo
    /\ UNCHANGED <<medicines, env_vars, scan_interval, last_scan_time, last_detected_medicine,
                   last_analysis, now, medicine_name, n_results, attempted,
                   attempt_start, ocr_calls, db_calls, llm_calls, ocr_outcome,
                   llm_outcome, replaced_cached, db_vars>>

\* The clock advances: between two loop iterations, or while the OCR engine
\* or the classifier is at work.
Tick ==
    /\ pc \in {"loop", "ocr", "detected"}
    /\ now < StartTime + TimeSpan
    /\ now' = now + 1
    /\ event' = IF pc = "loop" THEN "tick" ELSE event
    /\ UNCHANGED <<medicines, env_vars, scan_interval, last_scan_time, last_detected_medicine,
                   last_analysis, pc, medicine_name, n_results, attempted,
                   attempt_start, pre_medicine, pre_analysis, ocr_calls, db_calls,
                   llm_calls, ocr_outcome, llm_outcome, scan_failed, replaced_cached, db_vars>>

Next ==
    \/ Construct
    \/ CameraFail \/ Quit \/ ManualScan \/ Reset \/ AutoScan \/ Idle
    \/ Detect \/ StoreResults \/ ReportNoMedicine
    \/ Tick

Spec == Init /\ [][Next]_vars

----------------------------------------------------------------------------
(* The running scanner on a clock that never stops *)

\* The clock advances past the last reading followed. Readings are counted
\* from an origin one tick later, so the clock's reading stays what it is and
\* the time of the last scan is one less; a time that is StartTime or earlier
\* is left alone: it is at least TimeSpan, hence at least scan_interval, before
\* the clock's reading, and _should_scan reads nothing but that difference.
TickPastHorizon ==
    /\ pc \in {"loop", "ocr", "detected"}
    /\ now = StartTime + TimeSpan
    /\ last_scan_time' = IF last_scan_time > StartTime THEN last_scan_time - 1
                          ELSE last_scan_time
    /\ attempt_start' = IF attempt_start > StartTime THEN attempt_start - 1
                         ELSE attempt_start
    /\ event' = IF pc = "loop" THEN "tick" ELSE event
    /\ UNCHANGED <<medicines, env_vars, scan_interval, last_detected_medicine,
                   last_analysis, now, pc, medicine_name, n_results, attempted,
                   pre_medicine, pre_analysis, ocr_calls, db_calls, llm_calls,
                   ocr_outcome, llm_outcome, scan_failed, replaced_cached, db_vars>>

LiveNext == Next \/ TickPastHorizon

\* The constructor returns; the clock keeps advancing; the calls of the OCR
\* reader and of the classifier return, so a scan that began ends; and the
\* while loop keeps iterating, so an iteration with no key in which
\* _should_scan() is true comes to pass if it stays possible.
LiveSpec ==
    /\ Init
    /\ [][LiveNext]_vars
    /\ WF_vars(Construct)
    /\ WF_vars(Tick \/ TickPastHorizon)
    /\ WF_vars(Detect)
    /\ WF_vars(StoreResults)
    /\ WF_vars(ReportNoMedicine)
    /\ WF_vars(AutoScan)

----------------------------------------------------------------------------
(* Claims about the database (checked under DbSpec) *)

\* The indices of the entries equal to the string s up to letter case.
CaseEqualEntries(s) == {i \in 1..Len(medicines) : Lower(medicines[i]) = Lower(s)}

FirstOf(S) == CHOOSE i \in S : \A j \in S : i <= j

\* C5 as stated: a search for a query equal to an entry e up to letter case
\* returns e itself, for every catalog, every such e and every threshold.
C5_ReturnsEveryCaseEqualEntry ==
    db_op = "search" =>
        \A i \in CaseEqualEntries(db_query) : db_result = medicines[i]

\* C5 as amended: a search for a query equal to some entry up to letter case
\* returns the first entry, in catalog order, that equals the query up to letter
\* case, whatever the threshold; that is e itself unless an earlier entry
\* differs from e only in letter case.
C5_ReturnsFirstCaseEqualEntry ==
    (db_op = "search" /\ CaseEqualEntries(db_query) # {}) =>
        db_result = medicines[FirstOf(CaseEqualEntries(db_query))]

\* C5's case: a threshold no score reaches, a query equal up to case to two
\* entries, and the first of them returned.
C5_Witness ==
    /\ db_op = "search"
    /\ db_threshold = 101
    /\ db_query = Aspirin
    /\ medicines = <<aspirin, Aspirin>>
    /\ db_result = aspirin

\* The score of entry i for the query of the last call.
ScoreOf(i) == FuzzRatio(Strip(Lower(db_query)), Lower(medicines[i]))

MaxScore == CHOOSE m \in {ScoreOf(i) : i \in 1..Len(medicines)} :
                \A i \in 1..Len(medicines) : ScoreOf(i) <= m

\* C6: with a non-empty catalog and no entry equal to the query
\* case-insensitively, the search returns the first entry whose score is the
\* maximum score if that maximum is >= the threshold, and None otherwise, for
\* every threshold (0 with every score 0 included).
C6_ReturnsFirstMaximum ==
    (/\ db_op = "search"
     /\ medicines # <<>>
     /\ ~HasExact(medicines, Strip(Lower(db_query)))) =>
        db_result = IF MaxScore >= db_threshold
                    THEN medicines[FirstOf({i \in 1..Len(medicines) : ScoreOf(i) = MaxScore})]
                    ELSE None

\* C7: get_best_matches returns the first min(top_n, catalog size) pairs of the
\* catalog's (entry, score) pairs ordered by non-increasing score, pairs of
\* equal score in catalog order; the empty list for an empty catalog.
C7_TopNStableDescending ==
    db_op = "best_matches" =>
        LET n == Len(medicines)
            k == Min(db_top_n, n)
        IN  \E p \in [1..n -> 1..n] :
                /\ \A i, j \in 1..n : i < j =>
                       \/ ScoreOf(p[i]) > ScoreOf(p[j])
                       \/ ScoreOf(p[i]) = ScoreOf(p[j]) /\ p[i] < p[j]
                /\ db_matches = [i \in 1..k |-> <<medicines[p[i]], ScoreOf(p[i])>>]

\* C7's case: a result cut short by top_n whose first two pairs tie on the
\* score and hold different entries.
C7_Witness ==
    /\ db_op = "best_matches"
    /\ db_top_n < Len(medicines)
    /\ Len(db_matches) >= 2
    /\ db_matches[1][2] = db_matches[2][2]
    /\ db_matches[1][1] # db_matches[2][1]

----------------------------------------------------------------------------
(* Claims about the detection (checked under DbSpec) *)

\* What search_medicine returns for observation o of the last detection.
MatchOf(o) == SearchMedicine(medicines, Strip(o[1]), 80)

\* An observation confident and long enough to be taken without a match.
TrustedText(o) == o[2] > 70 /\ Len(Strip(o[1])) > 3

\* C9 as stated: the detection returns the name of the first observation that
\* has a catalog match or is a trusted text, and queries no observation after
\* it; None, with every observation queried, when there is no such observation.
C9_FirstWithAnyMatchWins ==
    db_op = "detect" =>
        LET acceptable == {i \in 1..Len(frame_results) :
                              \/ MatchOf(frame_results[i]) # None
                              \/ TrustedText(frame_results[i])}
            first == frame_results[FirstOf(acceptable)]
        IN  IF acceptable = {}
            THEN frame_name = None /\ frame_calls = Len(frame_results)
            ELSE /\ frame_name = IF MatchOf(first) # None THEN MatchOf(first)
                                 ELSE Strip(first[1])
                 /\ frame_calls = FirstOf(acceptable)

\* C9 as amended: the same, where a catalog match counts only if the entry
\* returned is not the empty string (an observation that strips to "" and
\* meets an empty catalog entry is passed over like an unmatched one).
C9_FirstAcceptableWins ==
    db_op = "detect" =>
        LET acceptable == {i \in 1..Len(frame_results) :
                              \/ MatchOf(frame_results[i]) \notin {None, <<>>}
                              \/ TrustedText(frame_results[i])}
            first == frame_results[FirstOf(acceptable)]
        IN  IF acceptable = {}
            THEN frame_name = None /\ frame_calls = Len(frame_results)
            ELSE /\ frame_name = IF MatchOf(first) \notin {None, <<>>} THEN MatchOf(first)
                                 ELSE Strip(first[1])
                 /\ frame_calls = FirstOf(acceptable)

\* C9's case: an unverified text ahead of a misspelt catalog name wins, and the
\* misspelt name is never queried.
C9_Witness ==
    /\ db_op = "detect"
    /\ frame_results = <<<<XYZ123, 90>>, <<Aspirn, 60>>>>
    /\ \E i \in 1..Len(medicines) : medicines[i] = Aspirin
    /\ frame_name = XYZ123
    /\ frame_calls = 1

\* C10: an observation the loop reaches that has no catalog match is returned
\* as the name, stripped and in its own letter case, if and only if its
\* confidence is above 0.7 and its stripped text is longer than 3; so a lone
\* unmatched ("ab", 0.95) gives None and a lone unmatched ("XYZ123", 0.9) gives
\* "XYZ123".
C10_UnverifiedIffConfidentAndLong ==
    db_op = "detect" =>
        /\ \A i \in 1..Len(frame_results) :
              (i <= frame_calls /\ MatchOf(frame_results[i]) = None) =>
                  ((frame_calls = i /\ frame_name = Strip(frame_results[i][1]))
                      <=> TrustedText(frame_results[i]))
        /\ (frame_results = <<<<<<"a", "b">>, 95>>>> /\ MatchOf(<<<<"a", "b">>, 95>>) = None)
              => frame_name = None
        /\ (frame_results = <<<<XYZ123, 90>>>> /\ MatchOf(<<XYZ123, 90>>) = None)
              => frame_name = XYZ123

\* C10's case: a text of stripped length 4 passed over at confidence 0.7 and
\* taken, stripped, at 0.71.
C10_Witness ==
    /\ db_op = "detect"
    /\ Len(frame_results) = 2
    /\ frame_results[1][2] = 70
    /\ frame_results[2] = <<<<"X", "Y", "Z", "1", " ">>, 71>>
    /\ frame_results[1][1] = frame_results[2][1]
    /\ frame_name = XYZ1
    /\ frame_calls = 2

\* C11 as stated: an observation the loop reaches whose stripped text has a
\* catalog match is accepted there, whatever its confidence and length, and the
\* name is the entry search_medicine returned; a lone ("Aspirn", 0.6) against a
\* catalog whose first entry spelt aspirin is "Aspirin" gives "Aspirin".
C11_AnyMatchAccepted ==
    db_op = "detect" =>
        /\ \A i \in 1..Len(frame_results) :
              (i <= frame_calls /\ MatchOf(frame_results[i]) # None) =>
                  (frame_calls = i /\ frame_name = MatchOf(frame_results[i]))
        /\ (/\ frame_results = <<<<Aspirn, 60>>>>
            /\ CaseEqualEntries(Aspirin) # {}
            /\ medicines[FirstOf(CaseEqualEntries(Aspirin))] = Aspirin)
              => frame_name = Aspirin

\* C11 as amended: the same for a catalog match that is not the empty string;
\* the name is an entry of the catalog, in the catalog's spelling.
C11_NonEmptyMatchAccepted ==
    db_op = "detect" =>
        /\ \A i \in 1..Len(frame_results) :
              (i <= frame_calls /\ MatchOf(frame_results[i]) \notin {None, <<>>}) =>
                  /\ frame_calls = i
                  /\ frame_name = MatchOf(frame_results[i])
                  /\ \E k \in 1..Len(medicines) : medicines[k] = frame_name
        /\ (/\ frame_results = <<<<Aspirn, 60>>>>
            /\ CaseEqualEntries(Aspirin) # {}
            /\ medicines[FirstOf(CaseEqualEntries(Aspirin))] = Aspirin)
              => frame_name = Aspirin

\* C11's case: a lone misspelt observation under confidence 0.7 resolved to the
\* catalog's spelling, which is not the observed text.
C11_Witness ==
    /\ db_op = "detect"
    /\ frame_results = <<<<Aspirn, 60>>>>
    /\ frame_name = Aspirin
    /\ frame_name # Strip(frame_results[1][1])

----------------------------------------------------------------------------
(* Claims about the analyzer and the OCR reader (checked under DbSpec) *)

\* The keys of the dictionary analyze_medicine and _parse_llm_response return.
InfoFields == {"type", "use", "drug_class", "form"}

\* Whether the string s begins with the string prefix.
StartsWith(s, prefix) ==
    Len(s) >= Len(prefix) /\ SubSeq(s, 1, Len(prefix)) = prefix

LinesOf(text) == Split(text, "\n")

\* The text of a line before its first colon, trimmed and lowercased, and the
\* text after it, trimmed; for a line that has a colon.
ColonsOf(line) == {i \in 1..Len(line) : line[i] = ":"}
KeyOf(line) == Lower(Strip(SubSeq(line, 1, FirstOf(ColonsOf(line)) - 1)))
ValueOf(line) == Strip(SubSeq(line, FirstOf(ColonsOf(line)) + 1, Len(line)))

\* The key that fills each field.
KeyFor == [type |-> <<"t", "y", "p", "e">>, use |-> <<"u", "s", "e">>,
           drug_class |-> <<"c", "l", "a", "s", "s">>, form |-> <<"f", "o", "r", "m">>]

\* C13: _parse_llm_response returns the four fields; each is the trimmed value
\* of some line whose key, trimmed and compared without case, is the field's
\* key, wherever that line stands and whatever lines surround it, and is
\* "Unknown" when no line has the field's key.
C13_ParseFillsFieldsByKey ==
    db_op = "parse" =>
        /\ DOMAIN medicine_info = InfoFields
        /\ \A f \in InfoFields :
              LET lines == LinesOf(parsed_text)
                  values == {ValueOf(lines[i]) :
                                i \in {k \in 1..Len(lines) :
                                          /\ ColonsOf(lines[k]) # {}
                                          /\ KeyOf(lines[k]) = KeyFor[f]}}
              IN  IF values = {} THEN medicine_info[f] = <<"U", "n", "k", "n", "o", "w", "n">>
                  ELSE medicine_info[f] \in values

\* C13's case: keys out of order, in capitals and with blanks around them, and
\* the two fields without a line left "Unknown".
C13_Witness ==
    /\ db_op = "parse"
    /\ Len(LinesOf(parsed_text)) >= 2
    /\ ColonsOf(LinesOf(parsed_text)[1]) # {}
    /\ KeyOf(LinesOf(parsed_text)[1]) = KeyFor.use
    /\ LinesOf(parsed_text)[2] # <<>>
    /\ LinesOf(parsed_text)[2][1] = "T"
    /\ medicine_info.type = <<"N", "S", "A", "I", "D">>
    /\ medicine_info.use = <<"P", "a", "i", "n">>
    /\ medicine_info.drug_class = Unknown
    /\ medicine_info.form = Unknown

\* C15: read_text_from_frame returns the engine's results of confidence >= the
\* threshold (0.5), in the engine's order, one at the threshold kept; and the
\* empty list when the engine call raises.
C15_FilterKeepsOrderAndThreshold ==
    db_op = "detect" =>
        frame_results = IF ocr_engine.ok
                        THEN SelectSeq(ocr_engine.results, LAMBDA o : o[2] >= 50)
                        ELSE <<>>

\* C15's case: of two results, the first under the threshold is dropped and the
\* second, at the threshold, is kept.
C15_Witness ==
    /\ db_op = "detect"
    /\ ocr_engine.ok
    /\ Len(ocr_engine.results) = 2
    /\ ocr_engine.results[1][2] < 50
    /\ ocr_engine.results[2][2] = 50
    /\ frame_results = <<ocr_engine.results[2]>>

----------------------------------------------------------------------------
(* Claims about the running scanner (checked under Spec) *)

\* C1 as stated: right after a reset the cached pair is None and _should_scan
\* at that instant is true, however recently a scan began.
C1_ResetMakesAutoScanEligible ==
    event = "reset" =>
        /\ last_detected_medicine = None
        /\ last_analysis = NoneInfo
        /\ ShouldScan(now, last_scan_time, scan_interval)

\* C1 as amended: a reset sets the cached pair to None and leaves
\* last_scan_time as it was, so _should_scan right after it is true only if no
\* scan has begun yet or the last one began at least scan_interval ago.
C1_ResetClearsCacheKeepsScanTime ==
    [][event' = "reset" =>
          /\ last_detected_medicine' = None
          /\ last_analysis' = NoneInfo
          /\ last_scan_time' = last_scan_time
          /\ ShouldScan(now', last_scan_time', scan_interval')
                <=> (~attempted' \/ now' - attempt_start' >= scan_interval')]_vars

\* C1's case: a reset that cleared a cached result less than scan_interval
\* after the scan that cached it began.
C1_Witness ==
    /\ event = "reset"
    /\ Truthy(medicine_name)
    /\ last_detected_medicine = None
    /\ attempted
    /\ now - attempt_start < scan_interval

\* C2: from the start of a scan until it ends without an accepted name, the
\* cached pair is the pair cached when the scan began.
C2_NoDetectionKeepsCache ==
    [][(pc \in {"ocr", "detected"} /\ ~Truthy(medicine_name')) =>
          /\ last_detected_medicine' = pre_medicine
          /\ last_analysis' = pre_analysis]_vars

\* C2's case: a scan has just ended with no name accepted and a result is
\* still cached.
C2_Witness ==
    /\ event = "finish"
    /\ ocr_calls = 1
    /\ ~Truthy(medicine_name)
    /\ last_detected_medicine # None
    /\ last_analysis # NoneInfo

\* C3: once an attempt has begun, whatever its end, last_scan_time is the time
\* at which the last attempt began, and is so before the OCR reader or the
\* classifier is called; so for scan_interval > 0 _should_scan is false at any
\* time less than scan_interval after that.
C3_ScanTimeSetAtAttemptStart ==
    /\ attempted => last_scan_time = attempt_start
    /\ pc = "ocr" => (attempted /\ ocr_calls = 0 /\ llm_calls = 0)
    /\ (attempted /\ scan_interval > 0 /\ now - attempt_start < scan_interval)
          => ~ShouldScan(now, last_scan_time, scan_interval)

\* C3's case: an attempt that ended in an extraction failure, less than
\* scan_interval ago.
C3_Witness ==
    /\ event = "finish"
    /\ ocr_outcome = "fail"
    /\ scan_interval > 0
    /\ now - attempt_start < scan_interval

\* C4 as stated, for a positive scan_interval: a scan whose classification call
\* failed has returned to the loop with the accepted name and an "Error"
\* classification cached, and _should_scan is false when it returns.
C4_FailureCachedAndNoRetrigger ==
    (event = "finish" /\ llm_outcome = "fail" /\ scan_interval > 0) =>
        /\ pc = "loop"
        /\ last_detected_medicine = medicine_name
        /\ last_analysis.type = Error
        /\ ~ShouldScan(now, last_scan_time, scan_interval)

\* C4 as amended: such a scan has returned to the loop with the accepted name
\* and an "Error" classification cached, and last_scan_time is the time the
\* scan began: for scan_interval > 0, _should_scan is false until scan_interval
\* after the scan began (which may be before the scan returns).
C4_FailureCachedAndScanTimeSet ==
    (event = "finish" /\ llm_outcome = "fail") =>
        /\ pc = "loop"
        /\ Truthy(medicine_name)
        /\ last_detected_medicine = medicine_name
        /\ last_analysis.type = Error
        /\ last_analysis.drug_class = Unknown
        /\ last_analysis.form = Unknown
        /\ llm_calls = 1
        /\ last_scan_time = attempt_start
        /\ (scan_interval > 0 /\ now - attempt_start < scan_interval)
              => ~ShouldScan(now, last_scan_time, scan_interval)

\* C4's case: a scan whose classification call failed has just returned with
\* the "Error" classification cached, and no automatic scan is due yet.
C4_Witness ==
    /\ event = "finish"
    /\ llm_outcome = "fail"
    /\ last_analysis.type = Error
    /\ ~ShouldScan(now, last_scan_time, scan_interval)

\* C8: a scan whose OCR call gave no observations has no name, has made no
\* search_medicine call and no classifier call; and a scan calls the
\* classifier only with a name accepted from some observation.
C8_NoObservationsNoCalls ==
    /\ (ocr_calls = 1 /\ n_results = 0) =>
          (medicine_name = None /\ db_calls = 0 /\ llm_calls = 0)
    /\ llm_calls > 0 => (Truthy(medicine_name) /\ n_results > 0 /\ db_calls > 0)

\* C8's case: a scan has ended whose OCR call succeeded with no observation
\* kept, and the classifier was not called.
C8_Witness ==
    /\ event = "finish"
    /\ ocr_outcome = "ok"
    /\ n_results = 0
    /\ llm_calls = 0
    /\ medicine_name = None

\* C14: in one scan the OCR reader is called exactly once and the classifier
\* at most once: no call before the detection, one OCR call from the detection
\* on, a classifier call only when the scan ends, and neither a second time
\* after a failure.
C14_OneCallPerDependency ==
    /\ ocr_calls <= 1
    /\ llm_calls <= 1
    /\ pc = "ocr" => (ocr_calls = 0 /\ llm_calls = 0)
    /\ pc = "detected" => (ocr_calls = 1 /\ llm_calls = 0)
    /\ (pc = "loop" /\ attempted) => ocr_calls = 1
    /\ ocr_outcome = "fail" => (ocr_calls = 1 /\ llm_calls = 0)
    /\ llm_outcome = "fail" => llm_calls = 1

\* C14's case: a scan has ended whose classifier call failed, after one OCR
\* call and one classifier call, with an earlier scan failed as well.
C14_Witness ==
    /\ event = "finish"
    /\ scan_failed
    /\ replaced_cached
    /\ llm_outcome = "fail"
    /\ ocr_calls = 1
    /\ llm_calls = 1

\* Where the program is once the constructor has returned and run is entered.
Running == pc \in {"loop", "ocr", "detected", "stopped"}

\* C16: a catalog file that is missing, unreadable or without a 'name' column
\* halts the startup, as an unset API key does: run is never entered with a
\* catalog that failed to load.
C16_FailedCatalogLoadHaltsStartup ==
    /\ Running => Truthy(api_key)
    /\ Running => database_source.kind = "csv"

\* C17: a scan that accepts a name ends with that name cached, together with a
\* classification the classifier can return for it in this scan (a degraded
\* one exactly when its call failed), whatever was cached before.
C17_StoreOverwritesWholeResult ==
    [][(pc = "detected" /\ Truthy(medicine_name) /\ pc' # "detected") =>
          /\ pc' = "loop"
          /\ last_detected_medicine' = medicine_name
          /\ DOMAIN last_analysis' = InfoFields
          /\ \E o \in LLMOutcomes :
                /\ (o.kind = "text") <=> (llm_outcome' = "ok")
                /\ last_analysis' = AnalyzeMedicine(medicine_name, o)]_vars

\* C17's case: a scan has stored a classification without Class and Form
\* lines over a cached result, and those two fields are "Unknown".
C17_Witness ==
    /\ event = "finish"
    /\ replaced_cached
    /\ llm_outcome = "ok"
    /\ last_detected_medicine = medicine_name
    /\ last_analysis.type = <<"N", "S", "A", "I", "D">>
    /\ last_analysis.drug_class = Unknown
    /\ last_analysis.form = Unknown

\* C18: run leaves its loop only on the quit key or on a frame the camera
\* fails to deliver; a scan, however it ends (extraction failure, no name,
\* classification failure), returns to the top of the loop.
C18_ScanFailuresKeepLoopRunning ==
    /\ pc = "stopped" => event \in {"quit", "camera_fail"}
    /\ event = "finish" => pc = "loop"
    /\ (event = "finish" /\ (ocr_outcome = "fail" \/ ~Truthy(medicine_name)
                               \/ llm_outcome = "fail"))
          => (pc = "loop" /\ scan_failed)

\* C18's case: after a scan that failed, a later scan has accepted a name and
\* cached it with a classification that is not degraded.
C18_Witness ==
    /\ pc = "loop"
    /\ event = "finish"
    /\ scan_failed
    /\ llm_outcome = "ok"
    /\ Truthy(medicine_name)
    /\ last_detected_medicine = medicine_name
    /\ last_analysis.type # Error

\* C19: a scan begins only from the top of the loop, on the scan key or
\* automatically; an automatic one only when now - last_scan_time >=
\* scan_interval, hence at least scan_interval after the attempt before it
\* began; both set last_scan_time and go on to the detection alike.
C19_AutoScanOnlyWhenDue ==
    [][(pc # "ocr" /\ pc' = "ocr") =>
          /\ pc = "loop"
          /\ event' \in {"manual_scan", "auto_scan"}
          /\ event' = "auto_scan" =>
                /\ now - last_scan_time >= scan_interval
                /\ attempted => now - attempt_start >= scan_interval
          /\ last_scan_time' = now
          /\ ocr_calls' = 0
          /\ llm_calls' = 0]_vars

\* C19's case: a manual scan begun while no automatic scan was due: with
\* scan_interval 2 it began at the very clock reading at which the scan that
\* cached the present result had begun.
C19_Witness ==
    /\ pc = "ocr"
    /\ event = "manual_scan"
    /\ scan_interval = ScanIntervalDefault
    /\ attempt_start = StartTime
    /\ pre_medicine # None

\* C20: at the top of the loop the cached name and the cached classification
\* are both None or both set, and a cached name is a non-empty string.
C20_CachedPairConsistent ==
    pc = "loop" =>
        /\ (last_detected_medicine = None) <=> (last_analysis = NoneInfo)
        /\ last_detected_medicine # None =>
              /\ last_detected_medicine # <<>>
              /\ DOMAIN last_analysis = InfoFields

\* C20's case: a result is cached, and the scan that just ended saw a blank
\* text, which the catalog's empty entry matches, and accepted no name.
C20_Witness ==
    /\ pc = "loop"
    /\ event = "finish"
    /\ \E i \in 1..Len(medicines) : medicines[i] = <<>>
    /\ n_results = 1
    /\ db_calls = 1
    /\ medicine_name = None
    /\ last_detected_medicine # None
    /\ last_analysis # NoneInfo

----------------------------------------------------------------------------
(* Claims about the scanner on a clock that never stops (checked under
   LiveSpec) *)

\* From here on the loop receives its frames and no key is pressed: run is in
\* its loop or in a scan, and what last happened is no key and no lost frame.
Keyless ==
    /\ pc \in {"loop", "ocr", "detected"}
    /\ event \notin {"manual_scan", "reset", "quit", "camera_fail"}

\* C21: before any scan has begun _should_scan() is true at the top of the
\* loop, so the first iteration without a key scans; and if from some point on
\* the loop receives its frames and no key is pressed, automatic scans begin
\* again and again, for ever.
C21_AutoScanRecurs ==
    /\ []((pc = "loop" /\ ~attempted) =>
             (ShouldScan(now, last_scan_time, scan_interval) /\ ENABLED AutoScan))
    /\ (<>[]Keyless) => []<><<AutoScan>>_vars

\* C21's case: with scan_interval 2 an automatic scan has begun at the last
\* clock reading followed, after an earlier scan that ended in a failure.
C21_Witness ==
    /\ pc = "ocr"
    /\ event = "auto_scan"
    /\ scan_interval = ScanIntervalDefault
    /\ scan_failed
    /\ now = StartTime + TimeSpan
    /\ last_scan_time = now

====
